---- MODULE Spec2Model ----
(***************************************************************************)
(* A model of the leveled logger of package log (src/log.go): the Logger   *)
(* state (level, flag, out, buf, mu), the emission path Output with its    *)
(* unlock/relock around runtime.Caller, the severity-named entry points,   *)
(* the Print and Panic families, the setters and getters, and the          *)
(* package-level functions that forward to the standard logger.            *)
(*                                                                         *)
(* Strings are sequences of one-character strings, so that indexing,       *)
(* slicing and appending are computed as the code computes them.           *)
(***************************************************************************)
EXTENDS Integers, Sequences, FiniteSets, TLC

VARIABLES
    level,      \* Logger.level
    flag,       \* Logger.flag
    out,        \* Logger.out: the sink the logger currently writes to
    buf,        \* Logger.buf: the scratch buffer
    mu,         \* Logger.mu: the goroutine holding the mutex, or NoOne
    sink,       \* per sink, the sequence of byte strings its Write received
    pc,         \* per goroutine, its position in the call it is executing
    call,       \* per goroutine, the entry point it called and its arguments
    loc,        \* per goroutine, the locals of the call and what it observed
    seen,       \* per goroutine, the values an unsynchronised read of level may return
    exited,     \* os.Exit has been called
    ncalls      \* number of calls started so far

vars == <<level, flag, out, buf, mu, sink, pc, call, loc, seen, exited, ncalls>>

-----------------------------------------------------------------------------
(* Bounds of the model *)

\* total number of calls the goroutines of Spec start
MaxCalls == 3

-----------------------------------------------------------------------------
(* Program constants: src/log.go:36-66 *)

Ldate == 1
Ltime == 2
Lmicroseconds == 4
Llongfile == 8
Lshortfile == 16
LUTC == 32
LstdFlags == Ldate + Ltime

LevelDebug == 1
LevelInfo == 2
LevelWarning == 4
LevelError == 8
LevelFatal == 16
LevelAll == LevelDebug + LevelInfo + LevelWarning + LevelError + LevelFatal

prefixEmpty == << >>
prefixDebug == <<"D", "E", "B", "U", " ">>
prefixInfo == <<"I", "N", "F", "O", " ">>
prefixWarning == <<"W", "A", "R", "N", " ">>
prefixError == <<"E", "R", "R", "O", " ">>
prefixFatal == <<"F", "A", "T", "A", " ">>

-----------------------------------------------------------------------------
(* Integer and string helpers *)

\* Go's a & b on non-negative ints
RECURSIVE And(_, _)
And(a, b) ==
    IF a = 0 \/ b = 0 THEN 0
    ELSE (a % 2) * (b % 2) + 2 * And(a \div 2, b \div 2)

NL == "\n"

Digits == <<"0", "1", "2", "3", "4", "5", "6", "7", "8", "9">>

\* byte('0' + d) for a digit value d
DigitChar(d) == Digits[d + 1]

SetMax(S) == CHOOSE x \in S : \A y \in S : y <= x

RECURSIVE Concat(_)
Concat(ss) == IF ss = << >> THEN << >> ELSE Head(ss) \o Concat(Tail(ss))

-----------------------------------------------------------------------------
(* itoa: fixed-width decimal, src/log.go:103-117 *)

\* the digits the loop assembles in reverse order, then the leading digit
RECURSIVE itoa(_, _)
itoa(i, wid) ==
    IF i >= 10 \/ wid > 1
    THEN Append(itoa(i \div 10, wid - 1), DigitChar(i - (i \div 10) * 10))
    ELSE <<DigitChar(i)>>

-----------------------------------------------------------------------------
(* time.Time as the logger uses it: an instant, counted in seconds from    *)
(* 2009/01/01 00:00:00 UTC and kept inside January 2009, the nanoseconds   *)
(* within the second, and the zone offset of the Time's location.          *)

SecondsPerDay == 24 * 60 * 60

\* t.UTC(): the same instant, in the UTC location
UTC(t) == [t EXCEPT !.off = 0]

\* seconds since the start of the month on the wall clock of t's location
Wall(t) == t.sec + t.off

\* t.Date()
DateOf(t) == [year |-> 2009, month |-> 1, day |-> (Wall(t) \div SecondsPerDay) + 1]

\* t.Clock()
ClockOf(t) ==
    LET d == Wall(t) % SecondsPerDay
    IN  [hour |-> d \div 3600, min |-> (d % 3600) \div 60, sec |-> d % 60]

\* t.Nanosecond()
Nanosecond(t) == t.nsec

-----------------------------------------------------------------------------
(* formatHeader, src/log.go:119-164: the buffer after the header is         *)
(* appended to b under the flags fl                                        *)

\* the file name after the Lshortfile loop: i runs from len(file)-1 down to 1
Short(file) ==
    LET idx == {k \in 2..Len(file) : file[k] = "/"}
    IN  IF idx = {} THEN file ELSE SubSeq(file, SetMax(idx) + 1, Len(file))

DatePart(fl, t) ==
    IF And(fl, Ldate) # 0
    THEN itoa(DateOf(t).year, 4) \o <<"/">> \o itoa(DateOf(t).month, 2) \o <<"/">>
            \o itoa(DateOf(t).day, 2) \o <<" ">>
    ELSE << >>

\* the bug a mutant of TimePart makes: Lmicroseconds alone no longer implies the time
TimePartNeedsLtime(fl, t) ==
    IF And(fl, Ltime) # 0
    THEN itoa(ClockOf(t).hour, 2) \o <<":">> \o itoa(ClockOf(t).min, 2) \o <<":">>
            \o itoa(ClockOf(t).sec, 2)
            \o (IF And(fl, Lmicroseconds) # 0
                THEN <<".">> \o itoa(Nanosecond(t) \div 1000, 6) ELSE << >>)
            \o <<" ">>
    ELSE << >>

TimePart(fl, t) ==
    IF And(fl, Ltime + Lmicroseconds) # 0
    THEN itoa(ClockOf(t).hour, 2) \o <<":">> \o itoa(ClockOf(t).min, 2) \o <<":">>
            \o itoa(ClockOf(t).sec, 2)
            \o (IF And(fl, Lmicroseconds) # 0
                THEN <<".">> \o itoa(Nanosecond(t) \div 1000, 6) ELSE << >>)
            \o <<" ">>
    ELSE << >>

FilePart(fl, file, line) ==
    IF And(fl, Lshortfile + Llongfile) # 0
    THEN (IF And(fl, Lshortfile) # 0 THEN Short(file) ELSE file)
            \o <<":">> \o itoa(line, 0 - 1) \o <<":", " ">>
    ELSE << >>

formatHeader(b, fl, prefix, t0, file, line) ==
    LET t == IF And(fl, LUTC) # 0 THEN UTC(t0) ELSE t0
        b1 == b \o prefix
        b2 == IF And(fl, Ldate + Ltime + Lmicroseconds) # 0
              THEN b1 \o DatePart(fl, t) \o TimePart(fl, t)
              ELSE b1
    IN  b2 \o FilePart(fl, file, line)

-----------------------------------------------------------------------------
(* fmt.Sprint, fmt.Sprintf and fmt.Sprintln on string operands *)

\* Sprint adds no space between operands when either is a string
Sprint(args) == Concat(args)

\* Sprintln puts a space between operands and a newline at the end
RECURSIVE JoinSpaces(_)
JoinSpaces(args) ==
    IF args = << >> THEN << >>
    ELSE IF Len(args) = 1 THEN Head(args)
    ELSE Head(args) \o <<" ">> \o JoinSpaces(Tail(args))

Sprintln(args) == JoinSpaces(args) \o <<NL>>

\* a format is a sequence of tokens: the verb "%s" or a literal character
Missing == <<"%", "!", "s", "(", "M", "I", "S", "S", "I", "N", "G", ")">>

RECURSIVE Sprintf(_, _)
Sprintf(format, args) ==
    IF format = << >> THEN << >>
    ELSE IF Head(format) = "%s"
         THEN IF args = << >>
              THEN Missing \o Sprintf(Tail(format), args)
              ELSE Head(args) \o Sprintf(Tail(format), Tail(args))
         ELSE <<Head(format)>> \o Sprintf(Tail(format), args)

-----------------------------------------------------------------------------
(* Goroutines, sinks, entry points *)

Procs == {"g1", "g2"}
NoOne == "none"
Sinks == {"w1", "w2"}

Severities == {"Debug", "Info", "Warning", "Error", "Fatal"}
EmitFamilies == {"Print", "Panic", "Output"} \cup Severities
Setters == {"SetFlags", "SetLevels", "SetOutput"}
Getters == {"Flags", "Levels"}
Variants == {"plain", "f", "ln"}
Apis == {"method", "func"}

\* the level bit each severity-named entry point passes to ignore
SevBit(fam) ==
    CASE fam = "Debug" -> LevelDebug
      [] fam = "Info" -> LevelInfo
      [] fam = "Warning" -> LevelWarning
      [] fam = "Error" -> LevelError
      [] fam = "Fatal" -> LevelFatal

\* the prefix each entry point passes to Output
PrefixOf(c) ==
    CASE c.fam = "Debug" -> prefixDebug
      [] c.fam = "Info" -> prefixInfo
      [] c.fam = "Warning" -> prefixWarning
      [] c.fam = "Error" -> prefixError
      [] c.fam = "Fatal" -> prefixFatal
      [] c.fam = "Output" /\ c.api = "method" -> c.prefix
      [] OTHER -> prefixEmpty

\* the message each entry point passes to Output
MessageOf(c) ==
    IF c.fam = "Output" THEN c.s
    ELSE CASE c.variant = "plain" -> Sprint(c.args)
           [] c.variant = "f" -> Sprintf(c.format, c.args)
           [] c.variant = "ln" -> Sprintln(c.args)

\* the bug a mutant of ignore makes: the mask read as a threshold
ignoreThreshold(lv, sev) == lv < sev

\* Logger.ignore, src/log.go:69-71
ignore(lv, sev) == And(lv, sev) = 0

-----------------------------------------------------------------------------
(* The call stack runtime.Caller walks *)

LogGo == <<"/", "l", "/", "l", "o", "g", ".", "g", "o">>

\* the frame of Logger.Output, at its call of runtime.Caller
OutputFrame == [file |-> LogGo, line |-> 182, inpkg |-> TRUE]

VariantIndex(v) == CASE v = "plain" -> 0 [] v = "f" -> 1 [] v = "ln" -> 2

SevIndex(fam) ==
    CASE fam = "Debug" -> 0 [] fam = "Info" -> 1 [] fam = "Warning" -> 2
      [] fam = "Error" -> 3 [] fam = "Fatal" -> 4

\* the line of log.go at which each entry point calls Output
WrapperLine(c) ==
    IF c.api = "method"
    THEN CASE c.fam = "Print" ->
                (CASE c.variant = "f" -> 202 [] c.variant = "plain" -> 208
                   [] c.variant = "ln" -> 214)
           [] c.fam \in Severities -> 223 + 9 * (3 * SevIndex(c.fam) + VariantIndex(c.variant))
           [] c.fam = "Panic" ->
                (CASE c.variant = "plain" -> 355 [] c.variant = "f" -> 362
                   [] c.variant = "ln" -> 369)
    ELSE CASE c.fam = "Print" -> 433 + 6 * VariantIndex(c.variant)
           [] c.fam \in Severities \ {"Fatal"} ->
                454 + 9 * (3 * SevIndex(c.fam) + VariantIndex(c.variant))
           [] c.fam = "Fatal" -> 561 + 9 * VariantIndex(c.variant)
           [] c.fam = "Panic" -> 586 + 7 * VariantIndex(c.variant)
           [] c.fam = "Output" -> 612

\* the frames above the caller's own: Output, and the entry point that called it
\* (Logger.Output called directly has no entry point between it and its caller)
StackOf(c) ==
    IF c.fam = "Output" /\ c.api = "method"
    THEN <<OutputFrame>> \o c.stack
    ELSE <<OutputFrame, [file |-> LogGo, line |-> WrapperLine(c), inpkg |-> TRUE]>>
            \o c.stack

\* the bug a mutant of DepthOf makes: the package-level Output forgets its own frame
DepthOfNoExtraFrame(c) == IF c.fam = "Output" THEN c.calldepth ELSE 2

\* the calldepth each entry point passes to Logger.Output
DepthOf(c) ==
    IF c.fam = "Output"
    THEN (IF c.api = "method" THEN c.calldepth ELSE c.calldepth + 1)
    ELSE 2

\* runtime.Caller(skip): frame 0 is the function that calls runtime.Caller
Caller(stack, skip) ==
    IF skip >= 0 /\ skip + 1 <= Len(stack)
    THEN [file |-> stack[skip + 1].file, line |-> stack[skip + 1].line, ok |-> TRUE,
          inpkg |-> stack[skip + 1].inpkg]
    ELSE [file |-> << >>, line |-> 0, ok |-> FALSE, inpkg |-> FALSE]

-----------------------------------------------------------------------------
(* The state of a call *)

NoTime == [sec |-> 0, nsec |-> 0, off |-> 0]

\* an emission entry point of family fam (not Output) called with its arguments
EmitCall(fam, variant, api, format, args, now, stack) ==
    [fam |-> fam, variant |-> variant, api |-> api, format |-> format, args |-> args,
     s |-> << >>, prefix |-> << >>, calldepth |-> 0, now |-> now, stack |-> stack, arg |-> 0]

\* Logger.Output(calldepth, s, prefix) or the package-level Output(calldepth, s)
OutputCall(api, calldepth, s, prefix, now, stack) ==
    [fam |-> "Output", variant |-> "plain", api |-> api, format |-> << >>, args |-> << >>,
     s |-> s, prefix |-> prefix, calldepth |-> calldepth, now |-> now, stack |-> stack,
     arg |-> 0]

\* a setter or getter
ConfigCall(fam, api, arg) ==
    [fam |-> fam, variant |-> "plain", api |-> api, format |-> << >>, args |-> << >>,
     s |-> << >>, prefix |-> << >>, calldepth |-> 0, now |-> NoTime, stack |-> << >>,
     arg |-> arg]

NoCall == ConfigCall("none", "method", 0)

\* the locals of a call, and what the call has done so far
NewLoc ==
    [s |-> << >>,          \* the formatted message
     file |-> << >>,       \* Output's file
     line |-> 0,           \* Output's line
     inpkg |-> FALSE,      \* the captured frame lies inside package log
     gate |-> "none",      \* the outcome of ignore: none, pass, ignore
     lvl |-> 0,            \* the value of l.level that ignore read
     nres |-> 0,           \* calls of runtime.Caller
     nlock |-> 0,          \* calls of l.mu.Lock
     nunlock |-> 0,        \* calls of l.mu.Unlock
     nw |-> 0,             \* calls of out.Write
     wbytes |-> << >>,     \* the bytes passed to out.Write
     wsink |-> NoOne,      \* the sink written to
     hflag |-> 0,          \* the flags formatHeader read
     werr |-> "nil",       \* the error out.Write returned
     ret |-> "nil",        \* the value Output returned
     unlocked |-> FALSE,   \* Output has run its deferred Unlock
     payload |-> << >>,    \* the value passed to panic
     result |-> 0]         \* the value a getter returned

Done == {"idle", "ret", "panicked"}

-----------------------------------------------------------------------------
(* The steps of an emission *)

\* the bug a mutant of Ignored makes: the Print family is gated like Info
IgnoredWithPrint(c, lv) ==
    IF c.fam \in Severities THEN ignore(lv, SevBit(c.fam))
    ELSE c.fam = "Print" /\ ignore(lv, LevelInfo)

\* the early return of an entry point: only the severity-named ones call ignore
Ignored(c, lv) == c.fam \in Severities /\ ignore(lv, SevBit(c.fam))

\* the entry point up to its call of Output: the severity gate, which reads
\* l.level without the lock, then the formatting of the message
Enter(g) ==
    /\ ~exited
    /\ pc[g] = "entry"
    /\ call[g].fam \in EmitFamilies
    /\ \E lv \in seen[g] :
        LET gated == call[g].fam \in Severities
        IN  IF Ignored(call[g], lv)
            THEN /\ pc' = [pc EXCEPT ![g] = "ret"]
                 /\ loc' = [loc EXCEPT ![g].gate = "ignore", ![g].lvl = lv]
            ELSE /\ pc' = [pc EXCEPT ![g] = "output"]
                 /\ loc' = [loc EXCEPT ![g].gate = IF gated THEN "pass" ELSE "none",
                                       ![g].lvl = IF gated THEN lv ELSE 0,
                                       ![g].s = MessageOf(call[g])]
    /\ UNCHANGED <<level, flag, out, buf, mu, sink, call, seen, exited, ncalls>>

\* the bug a mutant of LockAndTest makes: when the file flags are clear the
\* lock is released after the test and taken again before the formatting
LockAndTestThenRelease(g) ==
    /\ ~exited
    /\ pc[g] = "output"
    /\ mu = NoOne
    /\ mu' = IF And(flag, Lshortfile + Llongfile) # 0 THEN g ELSE NoOne
    /\ seen' = [seen EXCEPT ![g] = {level}]
    /\ pc' = [pc EXCEPT ![g] =
                IF And(flag, Lshortfile + Llongfile) # 0 THEN "resolve" ELSE "relock"]
    /\ loc' = [loc EXCEPT ![g].nlock = @ + 1]
    /\ UNCHANGED <<level, flag, out, buf, sink, call, exited, ncalls>>

\* Output, lines 176-178: Lock, then the test of the file flags
LockAndTest(g) ==
    /\ ~exited
    /\ pc[g] = "output"
    /\ mu = NoOne
    /\ mu' = g
    /\ seen' = [seen EXCEPT ![g] = {level}]
    /\ pc' = [pc EXCEPT ![g] =
                IF And(flag, Lshortfile + Llongfile) # 0 THEN "resolve" ELSE "format"]
    /\ loc' = [loc EXCEPT ![g].nlock = @ + 1]
    /\ UNCHANGED <<level, flag, out, buf, sink, call, exited, ncalls>>

\* the bug a mutant of Unlock makes: the call site is looked up with the lock held
UnlockSkipped(g) ==
    /\ ~exited
    /\ pc[g] = "resolve"
    /\ pc' = [pc EXCEPT ![g] = "caller"]
    /\ UNCHANGED <<level, flag, out, buf, mu, sink, call, loc, seen, exited, ncalls>>

\* Output, line 180: the lock is released while the call site is looked up
Unlock(g) ==
    /\ ~exited
    /\ pc[g] = "resolve"
    /\ mu' = NoOne
    /\ loc' = [loc EXCEPT ![g].nunlock = @ + 1]
    /\ pc' = [pc EXCEPT ![g] = "caller"]
    /\ UNCHANGED <<level, flag, out, buf, sink, call, seen, exited, ncalls>>

\* Output, lines 182-186: runtime.Caller(calldepth), and the defaults when it fails
Resolve(g) ==
    /\ ~exited
    /\ pc[g] = "caller"
    /\ LET r == Caller(StackOf(call[g]), DepthOf(call[g]))
       IN  loc' = [loc EXCEPT ![g].file = IF r.ok THEN r.file ELSE <<"?", "?", "?">>,
                              ![g].line = IF r.ok THEN r.line ELSE 0,
                              ![g].inpkg = r.inpkg,
                              ![g].nres = @ + 1]
    /\ pc' = [pc EXCEPT ![g] = "relock"]
    /\ UNCHANGED <<level, flag, out, buf, mu, sink, call, seen, exited, ncalls>>

\* the bug a mutant of Relock makes: Output goes on without taking the lock again
RelockSkipped(g) ==
    /\ ~exited
    /\ pc[g] = "relock"
    /\ pc' = [pc EXCEPT ![g] = "format"]
    /\ UNCHANGED <<level, flag, out, buf, mu, sink, call, loc, seen, exited, ncalls>>

\* Output, line 187: Lock again
Relock(g) ==
    /\ ~exited
    /\ pc[g] = "relock"
    /\ mu = NoOne
    /\ mu' = g
    /\ seen' = [seen EXCEPT ![g] = {level}]
    /\ loc' = [loc EXCEPT ![g].nlock = @ + 1]
    /\ pc' = [pc EXCEPT ![g] = "format"]
    /\ UNCHANGED <<level, flag, out, buf, sink, call, exited, ncalls>>

\* Output, lines 189-190: the buffer is truncated and the header formatted into it
Format(g) ==
    /\ ~exited
    /\ pc[g] = "format"
    /\ buf' = formatHeader(<< >>, flag, PrefixOf(call[g]), call[g].now,
                           loc[g].file, loc[g].line)
    /\ loc' = [loc EXCEPT ![g].hflag = flag]
    /\ pc' = [pc EXCEPT ![g] = "append"]
    /\ UNCHANGED <<level, flag, out, mu, sink, call, seen, exited, ncalls>>

\* the bug a mutant of WithNewline makes: the newline is appended to every message
WithNewlineAlways(b, s) == b \o s \o <<NL>>

\* Output, lines 191-194: the message, and a newline unless it ends in one
WithNewline(b, s) ==
    IF Len(s) = 0 \/ s[Len(s)] # NL THEN b \o s \o <<NL>> ELSE b \o s

Append2(g) ==
    /\ ~exited
    /\ pc[g] = "append"
    /\ buf' = WithNewline(buf, loc[g].s)
    /\ pc' = [pc EXCEPT ![g] = "write"]
    /\ UNCHANGED <<level, flag, out, mu, sink, call, loc, seen, exited, ncalls>>

\* the sinks: Write of w1 succeeds, Write of w2 fails
WriteError(w) == IF w = "w2" THEN "err" ELSE "nil"

\* the bug a mutant of Write makes: the line goes to a sink other than l.out,
\* one that SetOutput has replaced or that was never set
WriteReplacedSink(g) ==
    /\ ~exited
    /\ pc[g] = "write"
    /\ LET w == CHOOSE x \in Sinks : x # out
           e == WriteError(w) IN
        /\ sink' = [sink EXCEPT ![w] = Append(@, [bytes |-> buf, by |-> g, err |-> e])]
        /\ loc' = [loc EXCEPT ![g].nw = @ + 1, ![g].wbytes = buf, ![g].wsink = w,
                              ![g].werr = e]
    /\ pc' = [pc EXCEPT ![g] = "return"]
    /\ UNCHANGED <<level, flag, out, buf, mu, call, seen, exited, ncalls>>

\* Output, line 195: one call of out.Write, which succeeds or fails
Write(g) ==
    /\ ~exited
    /\ pc[g] = "write"
    /\ LET e == WriteError(out) IN
        /\ sink' = [sink EXCEPT ![out] = Append(@, [bytes |-> buf, by |-> g, err |-> e])]
        /\ loc' = [loc EXCEPT ![g].nw = @ + 1, ![g].wbytes = buf, ![g].wsink = out,
                              ![g].werr = e]
    /\ pc' = [pc EXCEPT ![g] = "return"]
    /\ UNCHANGED <<level, flag, out, buf, mu, call, seen, exited, ncalls>>

\* the bug a mutant of OutputResult makes: the error of Write is dropped
OutputResultNil(l) == "nil"

\* Output, line 196: the error of Write is the result
OutputResult(l) == l.werr

\* the bug a mutant of AfterOutput makes: the Panic family returns like Print
AfterOutputNoPanic(c) ==
    IF c.fam = "Fatal" /\ c.api = "func" THEN "exit" ELSE "ret"

\* where the entry point goes once Output has returned
AfterOutput(c) ==
    IF c.fam = "Panic" THEN "panic"
    ELSE IF c.fam = "Fatal" /\ c.api = "func" THEN "exit"
    ELSE "ret"

\* the bug a mutant of Return makes: Output returns without its deferred Unlock
ReturnStillLocked(g) ==
    /\ ~exited
    /\ pc[g] = "return"
    /\ loc' = [loc EXCEPT ![g].ret = OutputResult(loc[g])]
    /\ pc' = [pc EXCEPT ![g] = AfterOutput(call[g])]
    /\ UNCHANGED <<level, flag, out, buf, mu, sink, call, seen, exited, ncalls>>

\* Output returns: the deferred Unlock runs, and the entry point gets the error
Return(g) ==
    /\ ~exited
    /\ pc[g] = "return"
    /\ mu' = NoOne
    /\ loc' = [loc EXCEPT ![g].ret = OutputResult(loc[g]), ![g].unlocked = TRUE,
                          ![g].nunlock = @ + 1]
    /\ pc' = [pc EXCEPT ![g] = AfterOutput(call[g])]
    /\ UNCHANGED <<level, flag, out, buf, sink, call, seen, exited, ncalls>>

\* Panic, Panicf, Panicln: panic(s) once Output has returned
Panic(g) ==
    /\ ~exited
    /\ pc[g] = "panic"
    /\ loc' = [loc EXCEPT ![g].payload = loc[g].s]
    /\ pc' = [pc EXCEPT ![g] = "panicked"]
    /\ UNCHANGED <<level, flag, out, buf, mu, sink, call, seen, exited, ncalls>>

\* the package-level Fatal, Fatalf, Fatalln: os.Exit(1) once Output has returned
Exit(g) ==
    /\ ~exited
    /\ pc[g] = "exit"
    /\ exited' = TRUE
    /\ pc' = [pc EXCEPT ![g] = "exited"]
    /\ UNCHANGED <<level, flag, out, buf, mu, sink, call, loc, seen, ncalls>>

-----------------------------------------------------------------------------
(* Setters and getters: Lock, the field access, deferred Unlock *)

\* the bug a mutant of StoreFlags makes: SetFlags ors the new flags into the old
StoreFlagsOr(old, new) == old + new - And(old, new)

\* SetFlags, line 384
StoreFlags(old, new) == new

\* Lock and the body of SetOutput, SetFlags, SetLevels, Flags, Levels
ConfigLock(g) ==
    /\ ~exited
    /\ pc[g] = "entry"
    /\ call[g].fam \in Setters \cup Getters
    /\ mu = NoOne
    /\ mu' = g
    /\ LET c == call[g] IN
        /\ level' = IF c.fam = "SetLevels" THEN c.arg ELSE level
        /\ flag' = IF c.fam = "SetFlags" THEN StoreFlags(flag, c.arg) ELSE flag
        /\ out' = IF c.fam = "SetOutput" THEN c.arg ELSE out
        /\ loc' = [loc EXCEPT ![g].nlock = @ + 1,
                              ![g].result =
                                CASE c.fam = "Flags" -> flag
                                  [] c.fam = "Levels" -> level
                                  [] OTHER -> 0]
        \* a write of level may be seen by the unsynchronised reads of the others;
        \* taking the lock orders this goroutine after every earlier write
        /\ seen' = [h \in Procs |->
                        IF h = g THEN {level'}
                        ELSE IF c.fam = "SetLevels" THEN seen[h] \cup {c.arg}
                        ELSE seen[h]]
    /\ pc' = [pc EXCEPT ![g] = "unlock"]
    /\ UNCHANGED <<buf, sink, call, exited, ncalls>>

\* the deferred Unlock, and the return
ConfigUnlock(g) ==
    /\ ~exited
    /\ pc[g] = "unlock"
    /\ mu' = NoOne
    /\ loc' = [loc EXCEPT ![g].nunlock = @ + 1]
    /\ pc' = [pc EXCEPT ![g] = "ret"]
    /\ UNCHANGED <<level, flag, out, buf, sink, call, seen, exited, ncalls>>

-----------------------------------------------------------------------------
(* Inputs *)

\* 2009/01/23 01:23:23.123123, in a location at UTC
T1 == [sec |-> 22 * SecondsPerDay + 1 * 3600 + 23 * 60 + 23, nsec |-> 123123000, off |-> 0]
\* 2009/01/05 00:30:07.000004 UTC, in a location five hours west: 2009/01/04 19:30:07
T2 == [sec |-> 4 * SecondsPerDay + 30 * 60 + 7, nsec |-> 4999, off |-> 0 - 5 * 3600]
\* 2009/01/10 23:59:59.999999 UTC, in a location one hour east: 2009/01/11 00:59:59
T3 == [sec |-> 9 * SecondsPerDay + 23 * 3600 + 59 * 60 + 59, nsec |-> 999999999, off |-> 3600]
Times == {T1, T2, T3}

UserFrame(file, line) == [file |-> file, line |-> line, inpkg |-> FALSE]

FileAB == <<"/", "a", "/", "b", ".", "g", "o">>
FileM == <<"m", ".", "g", "o">>
FileRoot == <<"/", "m", ".", "g", "o">>

Stack1 == <<UserFrame(FileAB, 23)>>
Stack2 == <<UserFrame(FileM, 7), UserFrame(FileAB, 1024)>>
Stack3 == <<UserFrame(FileRoot, 120), UserFrame(FileM, 9), UserFrame(FileAB, 3)>>
Stacks == {Stack1, Stack2, Stack3}

Operands == {<< >>, <<"a">>, <<"a", NL>>, <<NL>>, <<"a", NL, NL>>}

ArgLists ==
    {<< >>} \cup {<<x>> : x \in Operands} \cup {<<<<"a">>, <<"b">>>>, <<<<"a", NL>>, <<NL>>>>}

\* formats with as many verbs as operands
FormatCalls ==
    {[format |-> <<"%s">>, args |-> <<x>>] : x \in Operands}
        \cup {[format |-> <<"%s", NL>>, args |-> <<x>>] : x \in Operands}
        \cup {[format |-> <<"n", "=", "%s">>, args |-> <<<<"7">>>>],
              [format |-> << >>, args |-> << >>],
              [format |-> <<"%s", " ", "%s", NL>>, args |-> <<<<"a">>, <<"b">>>>]}

\* the format a variant is called with: none but for the f variant
FormatFor(variant) == IF variant = "f" THEN <<"%s">> ELSE << >>

AllFlags == 0..(2 * LUTC - 1)
AllLevels == 0..LevelAll

WrapperFamilies == {"Print", "Panic"} \cup Severities

-----------------------------------------------------------------------------
(* Spec: goroutines calling the entry points of one Logger concurrently *)

\* the message each goroutine logs: distinct, with and without a newline
MsgOf(g) == IF g = "g1" THEN <<"a">> ELSE <<"b", NL>>

StackFor(g) == IF g = "g1" THEN Stack1 ELSE Stack2

SpecFlags == {0, Lshortfile}
SpecLevels == {LevelWarning + LevelError, LevelAll}

CallMenu(g) ==
    {EmitCall("Print", "plain", "method", << >>, <<MsgOf(g)>>, T1, StackFor(g)),
     EmitCall("Warning", "ln", "method", << >>, <<MsgOf(g)>>, T1, StackFor(g)),
     EmitCall("Debug", "f", "func", <<"%s">>, <<MsgOf(g)>>, T1, StackFor(g)),
     EmitCall("Fatal", "plain", "method", << >>, <<MsgOf(g)>>, T1, StackFor(g)),
     EmitCall("Fatal", "plain", "func", << >>, <<MsgOf(g)>>, T1, StackFor(g)),
     EmitCall("Panic", "plain", "method", << >>, <<MsgOf(g)>>, T1, StackFor(g)),
     OutputCall("func", 1, MsgOf(g), << >>, T1, StackFor(g))}
    \cup {ConfigCall("SetFlags", "method", f) : f \in SpecFlags}
    \cup {ConfigCall("SetLevels", "func", v) : v \in SpecLevels}
    \cup {ConfigCall("SetOutput", "func", w) : w \in Sinks}
    \cup {ConfigCall("Flags", "func", 0), ConfigCall("Levels", "method", 0)}

\* a goroutine calls an entry point
Call(g) ==
    /\ ~exited
    /\ pc[g] \in Done
    /\ ncalls < MaxCalls
    /\ \E c \in CallMenu(g) : call' = [call EXCEPT ![g] = c]
    /\ loc' = [loc EXCEPT ![g] = NewLoc]
    /\ pc' = [pc EXCEPT ![g] = "entry"]
    /\ ncalls' = ncalls + 1
    /\ UNCHANGED <<level, flag, out, buf, mu, sink, seen, exited>>

\* New(out, flag, level), src/log.go:89-91
New(w, f, v) ==
    /\ out = w
    /\ flag = f
    /\ level = v
    /\ mu = NoOne

Init ==
    /\ \E f \in {LstdFlags, Lshortfile} : New("w1", f, LevelAll)
    /\ buf = << >>
    /\ sink = [w \in Sinks |-> << >>]
    /\ pc = [g \in Procs |-> "idle"]
    /\ call = [g \in Procs |-> NoCall]
    /\ loc = [g \in Procs |-> NewLoc]
    /\ seen = [g \in Procs |-> {level}]
    /\ exited = FALSE
    /\ ncalls = 0

Step(g) ==
    \/ Enter(g)
    \/ LockAndTest(g)
    \/ Unlock(g)
    \/ Resolve(g)
    \/ Relock(g)
    \/ Format(g)
    \/ Append2(g)
    \/ Write(g)
    \/ Return(g)
    \/ Panic(g)
    \/ Exit(g)

Next ==
    \E g \in Procs :
        \/ Call(g)
        \/ Step(g)
        \/ ConfigLock(g)
        \/ ConfigUnlock(g)

Spec == Init /\ [][Next]_vars

\* fair scheduling: a goroutine that can go on with its call does so in the
\* end; a goroutine blocked in Lock goes on once the mutex stays free
Fairness == \A g \in Procs : WF_vars(Step(g) \/ ConfigLock(g) \/ ConfigUnlock(g))

SpecFair == Spec /\ Fairness

-----------------------------------------------------------------------------
(* SpecSeq: one goroutine makes one call on a Logger, in the manner of the  *)
(* table-driven tests: the Logger is built by New(out, flag, level), either *)
(* fresh or after an earlier emission has left its line in the buffer and   *)
(* in the sink, and an entry point is called with the arguments of the case *)

\* every severity mask, with every wrapper entry point
LevelCases ==
    {[flag |-> f, level |-> v,
      call |-> EmitCall(fam, variant, api, FormatFor(variant), <<<<"a">>>>, T1, Stack1)] :
        f \in {0, Lshortfile}, v \in AllLevels, fam \in WrapperFamilies,
        variant \in Variants, api \in Apis}

\* every combination of flags, with and without a severity prefix
FlagCases ==
    {[flag |-> f, level |-> LevelAll,
      call |-> EmitCall(fam, "plain", "method", << >>, <<<<"a">>>>, t, st)] :
        f \in AllFlags, fam \in {"Print", "Warning"}, t \in Times, st \in Stacks}

\* every message body
MessageCases ==
    {[flag |-> f, level |-> LevelAll,
      call |-> EmitCall(fam, variant, "method", << >>, args, T2, Stack2)] :
        f \in {0, LstdFlags, Lshortfile}, fam \in {"Print", "Error"},
        variant \in {"plain", "ln"}, args \in ArgLists}
    \cup
    {[flag |-> f, level |-> LevelAll,
      call |-> EmitCall(fam, "f", "func", fc.format, fc.args, T2, Stack2)] :
        f \in {0, LstdFlags, Lshortfile}, fam \in {"Print", "Error"}, fc \in FormatCalls}
    \cup
    {[flag |-> f, level |-> LevelAll,
      call |-> OutputCall(api, 1, m, IF api = "method" THEN prefixInfo ELSE << >>,
                          T2, Stack2)] :
        f \in {0, LstdFlags, Lshortfile}, api \in Apis, m \in Operands}

\* every entry point, with the file flags set, on every stack
DepthCases ==
    {[flag |-> f, level |-> LevelAll,
      call |-> EmitCall(fam, variant, api, FormatFor(variant), <<<<"a">>>>, T1, st)] :
        f \in {Lshortfile, Llongfile, Lshortfile + Llongfile, Llongfile + Ldate},
        fam \in WrapperFamilies, variant \in Variants, api \in Apis, st \in Stacks}
    \cup
    {[flag |-> f, level |-> LevelAll,
      call |-> OutputCall(api, d, <<"a">>, << >>, T1, st)] :
        f \in {Lshortfile, Llongfile}, api \in Apis, d \in 0..4, st \in Stacks}

TestCases == LevelCases \cup FlagCases \cup MessageCases \cup DepthCases

\* the line an earlier Print("z") wrote under flags 0, left in the buffer
StaleLine == <<"z", NL>>
StaleWrite(w) == [bytes |-> StaleLine, by |-> "g1", err |-> WriteError(w)]

InitSeq ==
    /\ \E tc \in TestCases, w \in Sinks :
        /\ New(w, tc.flag, tc.level)
        /\ call = [g \in Procs |-> IF g = "g1" THEN tc.call ELSE NoCall]
    /\ \E used \in BOOLEAN :
        /\ buf = IF used THEN StaleLine ELSE << >>
        /\ sink = [w \in Sinks |-> IF used /\ w = out THEN <<StaleWrite(w)>> ELSE << >>]
    /\ pc = [g \in Procs |-> IF g = "g1" THEN "entry" ELSE "idle"]
    /\ loc = [g \in Procs |-> NewLoc]
    /\ seen = [g \in Procs |-> {level}]
    /\ exited = FALSE
    /\ ncalls = 0

NextSeq == \E g \in Procs : Step(g)

SpecSeq == InitSeq /\ [][NextSeq]_vars

-----------------------------------------------------------------------------
(* SpecCfg: a setter is called on a Logger in any configuration, and once   *)
(* it has returned a getter is called, in the manner of TestSetFlags and    *)
(* TestSetLevels; or the getter is called on the Logger as New built it     *)

ConfigCases ==
    {[flag |-> f, level |-> LevelError, call |-> ConfigCall("SetFlags", api, x)] :
        f \in AllFlags, x \in AllFlags, api \in Apis}
    \cup
    {[flag |-> LstdFlags, level |-> v, call |-> ConfigCall("SetLevels", api, x)] :
        v \in AllLevels, x \in AllLevels, api \in Apis}
    \cup
    {[flag |-> f, level |-> v, call |-> NoCall] : f \in AllFlags, v \in AllLevels}

InitCfg ==
    /\ \E tc \in ConfigCases, w \in Sinks :
        /\ New(w, tc.flag, tc.level)
        /\ call = [g \in Procs |-> IF g = "g1" THEN tc.call ELSE NoCall]
    /\ \E used \in BOOLEAN :
        /\ buf = IF used THEN StaleLine ELSE << >>
        /\ sink = [w \in Sinks |-> IF used /\ w = out THEN <<StaleWrite(w)>> ELSE << >>]
    /\ pc = [g \in Procs |-> IF call[g] = NoCall THEN "idle" ELSE "entry"]
    /\ loc = [g \in Procs |-> NewLoc]
    /\ seen = [g \in Procs |-> {level}]
    /\ exited = FALSE
    /\ ncalls = 0

\* the next statement of the test: a getter is called once every call has returned
ReadBack(g) ==
    /\ ~exited
    /\ pc[g] = "idle"
    /\ \A h \in Procs : pc[h] \in Done
    /\ \E fam \in Getters, api \in Apis :
        call' = [call EXCEPT ![g] = ConfigCall(fam, api, 0)]
    /\ loc' = [loc EXCEPT ![g] = NewLoc]
    /\ pc' = [pc EXCEPT ![g] = "entry"]
    /\ UNCHANGED <<level, flag, out, buf, mu, sink, seen, exited, ncalls>>

NextCfg ==
    \E g \in Procs :
        \/ ReadBack(g)
        \/ ConfigLock(g)
        \/ ConfigUnlock(g)

SpecCfg == InitCfg /\ [][NextCfg]_vars

-----------------------------------------------------------------------------
(* Properties *)

TotalWrites == Len(sink["w1"]) + Len(sink["w2"])

\* the line of g's emission: the header of its own prefix, time and call site
\* under the flags formatHeader read, then its own message and the newline
OwnLine(g) ==
    WithNewline(formatHeader(<< >>, loc[g].hflag, PrefixOf(call[g]), call[g].now,
                             loc[g].file, loc[g].line),
                loc[g].s)

\* the call of g is over
Over(g) == pc[g] \in {"ret", "panicked", "exited"}

\* in SpecSeq: buffer and sinks are as the call found them
Untouched ==
    \/ buf = << >> /\ sink = [w \in Sinks |-> << >>]
    \/ buf = StaleLine
        /\ sink = [w \in Sinks |-> IF w = out THEN <<StaleWrite(w)>> ELSE << >>]

\* in SpecSeq: the sinks have received one Write since the call began, that of
\* g, and it went to the logger's sink
WroteOnce(g) ==
    LET r == [bytes |-> loc[g].wbytes, by |-> g, err |-> loc[g].werr]
    IN  /\ loc[g].nw = 1
        /\ loc[g].wsink = out
        /\ \A w \in Sinks \ {out} : sink[w] = << >>
        /\ sink[out] \in {<<r>>, <<StaleWrite(out), r>>}

\* C1: a severity-named call, of any of the three variants, on a Logger whose
\* mask is M writes to the sink iff (M & S) # 0; a call gated off returns with
\* sink and scratch buffer as they were, the lock never taken and no call-site
\* resolution made.
C1_GateIffMask ==
    \A g \in Procs :
        (call[g].fam \in Severities /\ pc[g] # "entry") =>
            LET on == And(level, SevBit(call[g].fam)) # 0
            IN  /\ on <=> loc[g].gate = "pass"
                /\ ~on => /\ pc[g] = "ret"
                          /\ Untouched
                          /\ loc[g].nres = 0
                          /\ loc[g].nw = 0
                          /\ mu = NoOne
                /\ (on /\ Over(g)) => WroteOnce(g)

\* a mask of non-adjacent severities gates off the severity between them, on a
\* Logger that has been used before
C1_Witness ==
    \E g \in Procs :
        /\ call[g].fam = "Info" /\ call[g].variant = "ln"
        /\ level = LevelDebug + LevelWarning + LevelFatal
        /\ pc[g] = "ret"
        /\ loc[g].gate = "ignore"
        /\ buf = StaleLine

\* C2: concurrent emissions make one Write each, of the emission's own
\* complete line, and the Writes do not overlap: the step of a Write appends one
\* record to one sink, nothing else changes a sink, and from the truncation of
\* the buffer to the return of Write the emitter holds the lock.
C2Serial ==
    /\ \A g \in Procs : pc[g] \in {"format", "append", "write", "return"} => mu = g
    /\ \A g \in Procs :
        (call[g].fam \in EmitFamilies /\ loc[g].gate # "ignore") =>
            loc[g].nw = IF pc[g] \in {"return", "panic", "exit"} \/ Over(g) THEN 1 ELSE 0

C2Step ==
    LET writers == {g \in Procs : pc[g] = "write" /\ pc'[g] = "return"}
    IN  /\ TotalWrites' = TotalWrites + Cardinality(writers)
        /\ \A w \in Sinks :
            /\ Len(sink'[w]) >= Len(sink[w])
            /\ SubSeq(sink'[w], 1, Len(sink[w])) = sink[w]
        /\ \A g \in writers :
            /\ Len(sink'[out]) = Len(sink[out]) + 1
            /\ sink'[out][Len(sink'[out])].bytes = OwnLine(g)
            /\ sink'[out][Len(sink'[out])].by = g

C2_OneWholeLinePerEmission == [][C2Serial' /\ C2Step]_vars

\* two emissions under the file flags have run concurrently and both lines are
\* in the sink, the one of the goroutine that resolved its call site second
\* written first
C2_Witness ==
    /\ loc["g1"].nw = 1 /\ loc["g2"].nw = 1
    /\ loc["g1"].nres = 1 /\ loc["g2"].nres = 1
    /\ Len(sink["w1"]) = 2
    /\ sink["w1"][1].by = "g2" /\ sink["w1"][2].by = "g1"
    /\ sink["w1"][1].bytes # sink["w1"][2].bytes

\* C3: every Fatal entry point, when LevelFatal is in the mask, emits and
\* then terminates the process: the call never returns to its caller, and the
\* exit comes after the Write and the release of the lock.
C3_FatalNeverReturns ==
    \A g \in Procs :
        (call[g].fam = "Fatal" /\ loc[g].gate = "pass") =>
            /\ pc[g] # "ret"
            /\ pc[g] = "exited" => (loc[g].nw = 1 /\ loc[g].unlocked)

\* C4: every read and write of level, flag, out and buf is made holding the
\* mutex, the read of level by the severity gate included: a goroutine at the
\* gate holds the lock, and the value it reads is the one last stored.
C4_GateHoldsLock ==
    \A g \in Procs :
        (pc[g] = "entry" /\ call[g].fam \in Severities) =>
            /\ mu = g
            /\ seen[g] = {level}

\* C5: the bytes written are header + s + newline when s is empty or does not
\* end in a newline, and header + s otherwise: the line always ends in a
\* newline, and at most one is appended.
C5_NewlineLaw ==
    \A g \in Procs :
        loc[g].nw = 1 =>
            LET w == loc[g].wbytes
                h == formatHeader(<< >>, loc[g].hflag, PrefixOf(call[g]), call[g].now,
                                  loc[g].file, loc[g].line)
                m == loc[g].s
                n == Len(h) + Len(m)
            IN  /\ Len(w) >= 1 /\ w[Len(w)] = NL
                /\ Len(w) \in {n, n + 1}
                /\ SubSeq(w, 1, n) = h \o m
                /\ (m # << >> /\ m[Len(m)] = NL) <=> Len(w) = n
                /\ loc[g].s = MessageOf(call[g])
                \* an empty Print still produces one line
                /\ (call[g].fam = "Print" /\ call[g].variant = "plain"
                        /\ call[g].args = << >>) => w = h \o <<NL>>

\* a body that ends in two newlines has been written as it is
C5_Witness ==
    \E g \in Procs :
        /\ pc[g] = "ret"
        /\ loc[g].s = <<"a", NL, NL>>
        /\ loc[g].wbytes = <<"a", NL, NL>>
        /\ Len(sink[out]) = 2

\* decimal renderings, written out digit by digit
Pad2(n) == <<DigitChar(n \div 10), DigitChar(n % 10)>>
Pad4(n) == Pad2(n \div 100) \o Pad2(n % 100)
Pad6(n) == Pad2(n \div 10000) \o Pad4(n % 10000)

RECURSIVE Decimal(_)
Decimal(n) == IF n < 10 THEN <<DigitChar(n)>> ELSE Decimal(n \div 10) \o <<DigitChar(n % 10)>>

Has(fl, bit) == And(fl, bit) # 0

\* the header of the line format: prefix, date, time[.microseconds], file:line
ExpectedHeader(fl, prefix, t0, file, line) ==
    LET t == IF Has(fl, LUTC) THEN UTC(t0) ELSE t0
        date == Pad4(DateOf(t).year) \o <<"/">> \o Pad2(DateOf(t).month) \o <<"/">>
                    \o Pad2(DateOf(t).day) \o <<" ">>
        clock == Pad2(ClockOf(t).hour) \o <<":">> \o Pad2(ClockOf(t).min) \o <<":">>
                    \o Pad2(ClockOf(t).sec)
        micro == <<".">> \o Pad6(Nanosecond(t) \div 1000)
        name == IF Has(fl, Lshortfile) THEN Short(file) ELSE file
        site == name \o <<":">> \o Decimal(line) \o <<":", " ">>
    IN  prefix
        \o (IF Has(fl, Ldate) THEN date ELSE << >>)
        \o (IF Has(fl, Ltime) \/ Has(fl, Lmicroseconds)
            THEN clock \o (IF Has(fl, Lmicroseconds) THEN micro ELSE << >>) \o <<" ">>
            ELSE << >>)
        \o (IF Has(fl, Lshortfile) \/ Has(fl, Llongfile) THEN site ELSE << >>)

\* C6: for every combination of flags the header is the severity prefix, then
\* the date iff Ldate, the time iff Ltime or Lmicroseconds, the microseconds iff
\* Lmicroseconds, the file:line iff Lshortfile or Llongfile, in this order; an
\* absent field contributes no byte.
C6_HeaderFields ==
    \A g \in Procs :
        pc[g] = "append" =>
            /\ buf = ExpectedHeader(flag, PrefixOf(call[g]), call[g].now,
                                    loc[g].file, loc[g].line)
            /\ (flag = 0 /\ PrefixOf(call[g]) = << >>) => buf = << >>

\* Lmicroseconds alone, on a used Logger: the header is the time with its
\* microseconds, 23:59:59.999999 in the zone one hour east being 00:59:59.999999
C6_Witness ==
    \E g \in Procs :
        /\ pc[g] = "append"
        /\ flag = Lmicroseconds
        /\ call[g].now = T3
        /\ buf = <<"0", "0", ":", "5", "9", ":", "5", "9", ".",
                   "9", "9", "9", "9", "9", "9", " ">>

\* C7: a call of Output makes one Write on the sink and returns the error of
\* this Write, nil when it succeeded; the package-level Output returns the same.
C7_OneWriteErrorReturned ==
    \A g \in Procs :
        loc[g].unlocked =>
            /\ WroteOnce(g)
            /\ loc[g].ret = loc[g].werr
            /\ loc[g].ret = sink[out][Len(sink[out])].err
            /\ loc[g].ret = WriteError(out)

\* the package-level Output has returned the error of a failed Write
C7_Witness ==
    \E g \in Procs :
        /\ call[g].fam = "Output" /\ call[g].api = "func"
        /\ pc[g] = "ret"
        /\ loc[g].ret = "err"
        /\ loc[g].nw = 1

\* C8: a call of the Panic family, under every mask and whether the Write
\* succeeds or fails, makes one Write of the message with the empty prefix and
\* then panics with the message as payload: it never returns, and the panic
\* comes after the Write and after the lock is released.
C8_PanicAfterWrite ==
    \A g \in Procs :
        (call[g].fam = "Panic" /\ pc[g] # "entry") =>
            /\ pc[g] # "ret"
            /\ loc[g].gate = "none"
            /\ loc[g].s = MessageOf(call[g])
            /\ pc[g] \in {"panic", "panicked"} =>
                /\ WroteOnce(g)
                /\ loc[g].unlocked
                /\ mu # g
                /\ loc[g].wbytes =
                        WithNewline(formatHeader(<< >>, loc[g].hflag, prefixEmpty,
                                                 call[g].now, loc[g].file, loc[g].line),
                                    loc[g].s)
            /\ pc[g] = "panicked" => loc[g].payload = MessageOf(call[g])
            /\ pc[g] # "panicked" => loc[g].payload = << >>

\* Panicln has panicked with its message under the mask 0 after a failed Write
C8_Witness ==
    \E g \in Procs :
        /\ call[g].fam = "Panic" /\ call[g].variant = "ln" /\ call[g].api = "func"
        /\ level = 0
        /\ pc[g] = "panicked"
        /\ loc[g].werr = "err"
        /\ loc[g].payload = <<"a", NL>>

\* C9: under every mask, 0 included, a call of Print, Printf or Println
\* makes one Write, of the line with the empty prefix: the severity mask never
\* suppresses the unleveled family.
C9_PrintNeverGated ==
    \A g \in Procs :
        (call[g].fam = "Print" /\ pc[g] # "entry") =>
            /\ loc[g].gate = "none"
            /\ pc[g] \notin {"panic", "panicked", "exit", "exited"}
            /\ pc[g] = "ret" =>
                /\ WroteOnce(g)
                /\ loc[g].wbytes =
                        WithNewline(formatHeader(<< >>, loc[g].hflag, prefixEmpty,
                                                 call[g].now, loc[g].file, loc[g].line),
                                    MessageOf(call[g]))

\* the package-level Printf has written its line under the mask 0
C9_Witness ==
    \E g \in Procs :
        /\ call[g].fam = "Print" /\ call[g].variant = "f" /\ call[g].api = "func"
        /\ level = 0
        /\ pc[g] = "ret"
        /\ loc[g].nw = 1
        /\ loc[g].wbytes = <<"a", NL>>

\* C10: with Lshortfile or Llongfile set, every entry point of the Print,
\* severity and Panic families, method or package-level function, and the
\* package-level Output called with calldepth 1, captures the frame of its
\* direct caller, never a frame of package log: all of them reach
\* runtime.Caller at the same depth.
C10_CallerFrame ==
    \A g \in Procs :
        (call[g].fam \in WrapperFamilies
            \/ (call[g].fam = "Output" /\ call[g].api = "func" /\ call[g].calldepth = 1)) =>
            /\ DepthOf(call[g]) = 2
            /\ loc[g].nres <= 1
            /\ (pc[g] \in {"format", "append", "write", "return"}
                    /\ And(flag, Lshortfile + Llongfile) # 0) => loc[g].nres = 1
            /\ loc[g].nres = 1 =>
                /\ loc[g].file = call[g].stack[1].file
                /\ loc[g].line = call[g].stack[1].line
                /\ ~loc[g].inpkg

\* the package-level Output, called with calldepth 1 from /m.go:120, has
\* captured that frame
C10_Witness ==
    \E g \in Procs :
        /\ call[g].fam = "Output" /\ call[g].api = "func" /\ call[g].calldepth = 1
        /\ loc[g].nres = 1
        /\ loc[g].file = FileRoot
        /\ loc[g].line = 120
        /\ pc[g] = "ret"

\* the part of a path after its last '/', the whole path when it has none
LastSegment(file) ==
    LET idx == {k \in 1..Len(file) : file[k] = "/"}
    IN  IF idx = {} THEN file ELSE SubSeq(file, SetMax(idx) + 1, Len(file))

\* C11: with Lshortfile set, with or without Llongfile, the file name in the
\* header is the part of the resolved path after its last '/', the whole path
\* when it has no '/'; the header under Lshortfile|Llongfile is the header under
\* Lshortfile alone.
C11_ShortFileLastSegment ==
    \A g \in Procs :
        (pc[g] = "append" /\ Has(flag, Lshortfile)) =>
            LET c == call[g]
                rest == flag - And(flag, Lshortfile + Llongfile)
                alone == flag - And(flag, Llongfile)
            IN  /\ buf = formatHeader(<< >>, rest, PrefixOf(c), c.now, << >>, 0)
                            \o LastSegment(loc[g].file) \o <<":">>
                            \o Decimal(loc[g].line) \o <<":", " ">>
                /\ buf = formatHeader(<< >>, alone, PrefixOf(c), c.now,
                                      loc[g].file, loc[g].line)

\* the value the getter of g is to return: the argument of the setter called
\* before it, the stored value when no setter of this field was called
ReadBackValue(g) ==
    LET field == IF call[g].fam = "Flags" THEN "SetFlags" ELSE "SetLevels"
        set == {h \in Procs : call[h].fam = field}
    IN  IF set = {} THEN (IF call[g].fam = "Flags" THEN flag ELSE level)
        ELSE call[CHOOSE h \in set : TRUE].arg

C12Step ==
    /\ \A g \in Procs :
        /\ (call[g].fam = "SetFlags" /\ pc'[g] # pc[g]) =>
                /\ level' = level /\ out' = out /\ sink' = sink
                /\ pc'[g] = "unlock" => flag' = call[g].arg
        /\ (call[g].fam = "SetLevels" /\ pc'[g] # pc[g]) =>
                /\ flag' = flag /\ out' = out /\ sink' = sink
                /\ pc'[g] = "unlock" => level' = call[g].arg
        /\ (call[g].fam \in Getters /\ pc[g] = "unlock" /\ pc'[g] = "ret") =>
                /\ loc'[g].result = ReadBackValue(g)
                /\ UNCHANGED <<level, flag, out, sink>>
    /\ (\A g \in Procs : call[g].fam # "SetFlags") => flag' = flag
    /\ (\A g \in Procs : call[g].fam # "SetLevels") => level' = level

\* C12: SetFlags(X) then Flags() returns X and SetLevels(X) then Levels()
\* returns X, for every bitmask X and whatever the Logger held before; on the
\* Logger New(out, f, v) built, Flags() returns f and Levels() returns v;
\* SetFlags leaves level and sink as they were, SetLevels leaves flags and sink
\* as they were; the methods and the package-level functions alike.
C12_SetThenGet == [][C12Step]_vars

\* SetFlags(Lmicroseconds) on a used Logger, then the package-level Flags
\* returned Lmicroseconds, and the level is still the one New was given
C12_Witness ==
    /\ call["g1"] = ConfigCall("SetFlags", "method", Lmicroseconds)
    /\ call["g2"] = ConfigCall("Flags", "func", 0)
    /\ pc["g2"] = "ret"
    /\ loc["g2"].result = Lmicroseconds
    /\ level = LevelError
    /\ buf = StaleLine

\* g takes the step of SetOutput that stores the sink
StoresOut(g) == call[g].fam = "SetOutput" /\ pc[g] = "entry" /\ pc'[g] = "unlock"

C13Step ==
    /\ out \in Sinks
    \* the sink changes in the locked step of SetOutput only, to its argument,
    \* and stays until the next one; no line moves to the new sink
    /\ \A g \in Procs : StoresOut(g) => (out' = call[g].arg /\ sink' = sink)
    /\ out' # out => \E g \in Procs : StoresOut(g)
    \* a Write appends one record to the sink active at this moment, and to no other
    /\ \A g \in Procs :
        (pc[g] = "write" /\ pc'[g] # "write") =>
            /\ mu = g
            /\ out' = out
            /\ loc'[g].wsink = out
            /\ Len(sink'[out]) = Len(sink[out]) + 1
            /\ SubSeq(sink'[out], 1, Len(sink[out])) = sink[out]
            /\ sink'[out][Len(sink'[out])].by = g
            /\ \A w \in Sinks \ {out} : sink'[w] = sink[w]
    /\ sink' # sink => \E g \in Procs : pc[g] = "write" /\ pc'[g] = "return"

\* C13: the Logger has one active sink at every moment; SetOutput alone changes
\* it, to its argument, moving no line; each Write appends to the sink active
\* at the moment of the Write and to no other, so that after SetOutput(w) every
\* Write goes to w until the next SetOutput and none to a replaced sink, also
\* when SetOutput runs while an emission has released the lock to resolve its
\* call site.
C13_WriteToActiveSink == [][C13Step]_vars

\* SetOutput(w2) holds the lock while the emission of g1 is between its call
\* site resolution and its second Lock, the line of g2 written before the
\* switch being in w1 only
C13_Witness ==
    /\ pc["g1"] = "relock"
    /\ loc["g1"].nres = 1
    /\ call["g2"] = ConfigCall("SetOutput", "func", "w2")
    /\ pc["g2"] = "unlock"
    /\ out = "w2"
    /\ Len(sink["w1"]) = 1
    /\ sink["w2"] = << >>

\* the steps of Output that use l.buf and l.out: lines 189-195
Critical == {"format", "append", "write"}

C14Step ==
    /\ \A g \in Procs :
        \* runtime.Caller is called with the file flags seen set, the lock released
        /\ loc'[g].nres > loc[g].nres =>
                /\ pc[g] = "caller"
                /\ mu # g /\ mu' # g
                /\ loc[g].nunlock = 1 /\ loc[g].nlock = 1
        /\ (pc[g] \in Critical /\ pc'[g] # pc[g]) => (mu = g /\ mu' = g)
    /\ (buf' # buf \/ sink' # sink) =>
            \E g \in Procs : pc[g] \in Critical /\ pc'[g] # pc[g] /\ mu = g
    /\ \A g \in Procs : pc'[g] \in Critical => mu' = g

\* C14: in Output, under Lshortfile or Llongfile, runtime.Caller is called only
\* while the calling goroutine does not hold l.mu; the truncation of l.buf, the
\* formatting of the header, the appending of the message and the Write run
\* only while it holds l.mu, and nothing else changes l.buf or a sink.
C14_ResolveOutsideLock == [][C14Step]_vars

\* g1 is looking up its call site, without the lock, while g2 holds the lock
\* and is about to write its line
C14_Witness ==
    /\ pc["g1"] = "caller"
    /\ loc["g1"].nunlock = 1
    /\ pc["g2"] = "write"
    /\ mu = "g2"
    /\ buf # << >>

\* the line of g's emission without a file:line field
LineWithoutSite(g) ==
    LET fl == loc[g].hflag - And(loc[g].hflag, Lshortfile + Llongfile)
    IN  WithNewline(formatHeader(<< >>, fl, PrefixOf(call[g]), call[g].now, << >>, 0),
                    loc[g].s)

\* C15: under every interleaving with SetFlags calls, a written line has a
\* file:line field only if runtime.Caller was called in that emission, and the
\* field is made of what that call gave; an emission that skipped the call
\* writes a line without the field, never one made of the empty file name and
\* line 0.
C15_SiteOnlyIfResolved ==
    \A g \in Procs :
        (call[g].fam \in EmitFamilies /\ loc[g].nw = 1) =>
            LET r == Caller(StackOf(call[g]), DepthOf(call[g]))
            IN  /\ Has(loc[g].hflag, Lshortfile + Llongfile) =>
                        /\ loc[g].nres = 1
                        /\ loc[g].file = (IF r.ok THEN r.file ELSE <<"?", "?", "?">>)
                        /\ loc[g].line = (IF r.ok THEN r.line ELSE 0)
                        /\ loc[g].wbytes = OwnLine(g)
                        /\ loc[g].wbytes # LineWithoutSite(g)
                /\ loc[g].nres = 0 =>
                        /\ loc[g].file = << >> /\ loc[g].line = 0
                        /\ loc[g].wbytes = LineWithoutSite(g)

\* g1 looked its call site up under Lshortfile, SetFlags(0) of g2 ran while g1
\* had released the lock, and g1 wrote its line without the file:line field
C15_Witness ==
    /\ call["g1"].fam = "Print"
    /\ pc["g1"] = "return"
    /\ loc["g1"].nres = 1
    /\ loc["g1"].hflag = 0
    /\ loc["g1"].wbytes = <<"a", NL>>
    /\ call["g2"] = ConfigCall("SetFlags", "method", 0)
    /\ pc["g2"] = "ret"

\* Output, or the setter or getter, has returned to the caller of g
Returned(g) == pc[g] \in {"ret", "panic", "panicked", "exit", "exited"}

LockBalance ==
    \A g \in Procs :
        LET l == loc[g] IN
        /\ l.nunlock <= l.nlock /\ l.nlock <= l.nunlock + 1
        /\ mu = g <=> l.nlock = l.nunlock + 1
        /\ Returned(g) =>
            /\ mu # g
            /\ l.nlock = l.nunlock
            /\ (call[g].fam \in EmitFamilies /\ l.gate # "ignore") => l.nlock = 1 + l.nres
            /\ call[g].fam \in Setters \cup Getters => l.nlock = 1

LockStep ==
    \A g \in Procs :
        /\ loc'[g].nunlock > loc[g].nunlock => (mu = g /\ mu' = NoOne)
        /\ loc'[g].nlock > loc[g].nlock => (mu = NoOne /\ mu' = g)
        /\ (mu = g /\ mu' # g) => loc'[g].nunlock = loc[g].nunlock + 1

\* C16: under fair scheduling, with Write always returning, every call that
\* was started comes to its end, by returning, by the panic of the Panic family
\* or with the exit of the process, whatever the other goroutine does; on both
\* paths of Output and in the setters and getters l.mu is unlocked as often as
\* it was locked, once without and twice with the call-site lookup; the caller
\* holds no lock when the call has returned; Unlock is called by the holder only.
C16_NoDeadlockLockBalanced ==
    /\ []LockBalance
    /\ [][LockStep]_vars
    /\ \A g \in Procs : (pc[g] = "entry") ~> (pc[g] \in {"ret", "panicked"} \/ exited)

\* both paths of Output, overlapping: g1 looked its call site up, and while it
\* did g2 cleared the flags and made an emission of its own; both returned
C16_Witness ==
    /\ pc["g1"] = "ret" /\ pc["g2"] = "ret"
    /\ call["g1"].fam = "Print" /\ call["g2"].fam = "Print"
    /\ loc["g1"].nres = 1 /\ loc["g1"].nlock = 2 /\ loc["g1"].nunlock = 2
    /\ loc["g2"].nres = 0 /\ loc["g2"].nlock = 1 /\ loc["g2"].nunlock = 1
    /\ sink["w1"][1].by = "g2" /\ sink["w1"][2].by = "g1"
    /\ mu = NoOne

====
